---- MODULE Spec2Model ----
(***************************************************************************)
(* Panel-to-data synchronisation of the file editing panels.               *)
(*                                                                         *)
(* Each React component is a state machine: its useState cells and useRef  *)
(* cells are the fields of one record, a provider call that has been       *)
(* issued and not yet settled is an element of a bag of requests, and one  *)
(* action is one handler, effect run or promise continuation.  A render    *)
(* and the effects it schedules run to completion before the next event,   *)
(* so a handler together with the effects its state change triggers is one *)
(* atomic step.                                                            *)
(*                                                                         *)
(*   SpecFE  the file editor, prop-driven (FileEditorPanel) and            *)
(*           context-driven (FileEditorPanelContent): feEnv.variant        *)
(*   SpecMD  the context-driven markdown editor (MDXEditorPanelContent)    *)
(*   SpecGD  the prop-driven diff viewer (GitDiffPanel)                    *)
(***************************************************************************)
EXTENDS Integers, Sequences, FiniteSets, Bags, TLC

(* ------------------------------ bounds -------------------------------- *)

\* Number of distinct file paths the host can name.
NPaths == 2
\* File contents are EmptyContent..MaxContent.
MaxContent == 1
\* Provider calls (reads and writes together) that may be outstanding at once.
MaxInFlight == 2
\* Number of distinct handler functions subscribed to the event bridge.
NHandlers == 2
\* Entries, deleted ones included, a handler Set holds during one forEach.
MaxEntries == 3
\* Pieces, separated by '.', a path of the language mapping has at most.
MaxPieces == 2

(* ----------------------------- constants ------------------------------ *)

\* filePath === null (and the falsy empty path).
NoPath == 0
\* The empty string, the initial value of every content cell.
EmptyContent == 0
\* An absent `value` argument of the editor's change / save callbacks.
NoValue == -1
\* The null of an error cell.
Null == "null"

Paths == 1..NPaths
Content == EmptyContent..MaxContent

\* How a provider promise settles.  A rejection reason is an Error with a
\* message, an Error whose message is empty, or a value that is not an Error.
RejectKinds == {"errMsg", "errEmpty", "nonError"}
ReadOutcomes ==
    [kind : {"content"}, value : Content]
        \cup [kind : {"null"} \cup RejectKinds, value : {EmptyContent}]
WriteOutcomes == {"ok"} \cup RejectKinds

\* err instanceof Error ? err.message : fallback
ErrMessage(kind, fallback) ==
    CASE kind = "errMsg" -> "E"
      [] kind = "errEmpty" -> ""
      [] OTHER -> fallback

\* JavaScript truthiness of a string | null cell.
Truthy(msg) == msg # Null /\ msg # ""

(* ------------------------------- bags --------------------------------- *)

RECURSIVE BagSum(_, _)
BagSum(b, S) ==
    IF S = {} THEN 0
    ELSE LET k == CHOOSE x \in S : TRUE IN b[k] + BagSum(b, S \ {k})
BagTotal(b) == BagSum(b, DOMAIN b)
BagAdd(b, k) == [b EXCEPT ![k] = @ + 1]
BagRemove(b, k) == [b EXCEPT ![k] = @ - 1]

VARIABLES
    fe,        \* file editor: state cells and refs
    feEnv,     \* file editor: props / adapters, fixed for the component's life
    feWatch,   \* file editor: paths of the active watchFile subscriptions
    feReads,   \* file editor: readFile calls in flight, a bag over paths
    feWrites,  \* file editor: writeFile calls in flight, a bag over <<path, content>>
    md,        \* context-driven markdown editor: state cells
    mdEnv,     \* context-driven markdown editor: the file-system adapter
    mdReads,   \* context-driven markdown editor: readFile calls in flight
    mdWrites,  \* context-driven markdown editor: writeFile calls in flight
    gd,        \* prop-driven diff viewer: props and state cells
    gdLoads,   \* prop-driven diff viewer: loadDiff runs whose promises are not all settled
    cd,        \* context-driven diff viewer: state cells
    cdEnv,     \* context-driven diff viewer: the file-system adapter
    cdLoads,   \* context-driven diff viewer: loadDiff runs whose read has not settled
    eb,        \* event bridge: handler sets and the emission in progress
    pm,        \* prop-driven markdown editor: the filePath prop and the state cells
    pmEnv,     \* prop-driven markdown editor: the content provider
    pmRuns,    \* prop-driven markdown editor: promises not settled, a bag over PM_RunKeys
    pmCalls,   \* prop-driven markdown editor: provider calls the last handler made
    lg,        \* language mapping: the path last rendered and the tag derived from it
    mounted,   \* the component the host has mounted
    emitted,   \* events the last handler emitted on the event bridge
    last       \* the last handler that ran: [op, other, ok]

feVars == <<fe, feEnv, feWatch, feReads, feWrites>>
mdVars == <<md, mdEnv, mdReads, mdWrites>>
gdVars == <<gd, gdLoads>>
cdVars == <<cd, cdEnv, cdLoads>>
pmVars == <<pm, pmEnv, pmRuns, pmCalls>>
vars == <<feVars, mdVars, gdVars, cdVars, pmVars, eb, lg, mounted, emitted, last>>

\* What an action of one component leaves alone: the other components.
FE_others == <<pmVars, mdVars, gdVars, cdVars, eb, lg, mounted>>
MD_others == <<pmVars, feVars, gdVars, cdVars, eb, lg, mounted>>
GD_others == <<pmVars, feVars, mdVars, cdVars, eb, lg, mounted>>
CD_others == <<pmVars, feVars, mdVars, gdVars, eb, lg, mounted>>
EB_others == <<pmVars, feVars, mdVars, gdVars, cdVars, lg, mounted>>
LG_others == <<pmVars, feVars, mdVars, gdVars, cdVars, eb, mounted>>

\* What is remembered of the last handler: its name, whether the target it ran
\* for was another one than the panel's when it ran, and whether its outcome
\* (if it is a promise continuation) was a success.
Op(op, other, kind) ==
    [op |-> op, other |-> other, ok |-> kind \in {"", "ok", "content"}]

(* ========================== file editor =============================== *)

WriteKeys == Paths \X Content

\* Provider calls of the file editor that have not settled yet.
FE_inFlight == BagTotal(feReads) + BagTotal(feWrites)

FE_InitState ==
    [ filePath |-> NoPath,
      fileContent |-> EmptyContent,
      editorContent |-> EmptyContent,
      isLoading |-> FALSE,
      error |-> Null,
      isDirty |-> FALSE,
      isSaving |-> FALSE,
      saveError |-> Null,
      latestFilePathRef |-> NoPath,
      isSavingRef |-> FALSE,
      isDirtyRef |-> FALSE ]

FE_Envs ==
    [ variant : {"prop"},
      isLocalFile : BOOLEAN,
      forceReadOnly : BOOLEAN,
      hasWriteFile : BOOLEAN,
      hasWatchFile : BOOLEAN ]
    \cup
    [ variant : {"context"},
      isLocalFile : {FALSE},
      forceReadOnly : {FALSE},
      hasWriteFile : BOOLEAN,
      hasWatchFile : {FALSE} ]

FE_Init ==
    /\ fe = FE_InitState
    /\ feEnv \in FE_Envs
    /\ feWatch = {}
    /\ feReads = [p \in Paths |-> 0]
    /\ feWrites = [k \in WriteKeys |-> 0]

\* The file editor is not mounted by the specification at hand.
FE_Idle ==
    /\ fe = FE_InitState
    /\ feEnv = CHOOSE e \in FE_Envs : TRUE
    /\ feWatch = {}
    /\ feReads = [p \in Paths |-> 0]
    /\ feWrites = [k \in WriteKeys |-> 0]

\* const isEditable = ...
FE_isEditable ==
    IF feEnv.variant = "prop"
    THEN feEnv.isLocalFile /\ ~feEnv.forceReadOnly /\ feEnv.hasWriteFile
    ELSE feEnv.hasWriteFile

\* The header (save button) is rendered when a file is set; the editor
\* widget only when, besides, no load is running and error is falsy.
FE_headerShown == fe.filePath # NoPath
FE_editorShown == fe.filePath # NoPath /\ ~fe.isLoading /\ ~Truthy(fe.error)

\* useEffect(() => { isDirtyRef.current = isDirty }, [isDirty])
FE_syncDirtyRef(s) == [s EXCEPT !.isDirtyRef = s.isDirty]

\* useEffect(() => { ...reset... }, [filePath])
FE_resetEffect_KeepDirty(s) == [s EXCEPT !.isSavingRef = FALSE]

FE_resetEffect(s) ==
    [s EXCEPT !.isDirtyRef = FALSE,
              !.isDirty = FALSE,
              !.isSaving = FALSE,
              !.isSavingRef = FALSE,
              !.saveError = Null]

FE_isLatest_Single(s, p) == s.latestFilePathRef = p /\ feReads[p] = 1

\* latestFilePathRef.current === filePath, filePath the one the closure captured
FE_isLatest(s, p) == s.latestFilePathRef = p

\* loadFile up to its await: the state it leaves, for the path p it captured.
FE_loadFileSync(s, p) ==
    IF p = NoPath
    THEN [s EXCEPT !.latestFilePathRef = NoPath,
                   !.fileContent = EmptyContent,
                   !.editorContent = EmptyContent,
                   !.isDirty = FALSE,
                   !.isSaving = FALSE,
                   !.saveError = Null]
    ELSE [s EXCEPT !.latestFilePathRef = p,
                   !.isLoading = TRUE,
                   !.error = Null]

\* A loadFile that overwrites the working snapshot whether dirty or not.
FE_keepWorking_Never(s) == FALSE

\* if (!isDirtyRef.current) { setEditorContent(content); setIsDirty(false) }
FE_keepWorking(s) == s.isDirtyRef

\* A loadFile that resumes without comparing latestFilePathRef to its path.
FE_loadFileResume_Unchecked(s, p, o) ==
    IF o.kind = "content"
    THEN LET s1 == [s EXCEPT !.fileContent = o.value, !.saveError = Null]
             s2 == IF FE_keepWorking(s) THEN s1
                   ELSE [s1 EXCEPT !.editorContent = o.value, !.isDirty = FALSE]
         IN  [s2 EXCEPT !.isLoading = FALSE]
    ELSE [s EXCEPT !.error = IF o.kind = "null" THEN "Failed to read file"
                             ELSE ErrMessage(o.kind, "Failed to load file"),
                   !.fileContent = EmptyContent,
                   !.isLoading = FALSE]

\* loadFile after its await, for the path p it captured and the outcome o.
FE_loadFileResume(s, p, o) ==
    IF ~FE_isLatest(s, p) THEN s
    ELSE IF o.kind = "content"
    THEN LET s1 == [s EXCEPT !.fileContent = o.value, !.saveError = Null]
             s2 == IF FE_keepWorking(s) THEN s1
                   ELSE [s1 EXCEPT !.editorContent = o.value, !.isDirty = FALSE]
         IN  [s2 EXCEPT !.isLoading = FALSE]
    ELSE [s EXCEPT !.error = IF o.kind = "null" THEN "Failed to read file"
                             ELSE ErrMessage(o.kind, "Failed to load file"),
                   !.fileContent = EmptyContent,
                   !.isLoading = FALSE]

\* The watchFile effect: the subscription a render with path p leaves.
FE_watchTarget(p) ==
    IF feEnv.variant = "prop" /\ p # NoPath /\ feEnv.isLocalFile /\ feEnv.hasWatchFile
    THEN p ELSE NoPath

\* A watch effect whose cleanup does not unsubscribe.
FE_watchEffect_NoCleanup(ws, old, p) == ws \cup ({FE_watchTarget(p)} \ {NoPath})

\* The watchFile effect on a change of filePath from old to p: the cleanup
\* of the previous run (return unwatch) and then the new run.
FE_watchEffect(ws, old, p) ==
    (ws \ {FE_watchTarget(old)}) \cup ({FE_watchTarget(p)} \ {NoPath})

\* A render with a new filePath p: reset effect, load effect, watch effect.
FE_TargetChanged(p) ==
    /\ p # NoPath => FE_inFlight < MaxInFlight
    /\ fe' = FE_syncDirtyRef(
                FE_loadFileSync(FE_resetEffect([fe EXCEPT !.filePath = p]), p))
    /\ feReads' = IF p # NoPath THEN BagAdd(feReads, p) ELSE feReads
    /\ feWatch' = FE_watchEffect(feWatch, fe.filePath, p)

\* Prop-driven: the parent renders the panel with filePath = p.
FE_PropFilePath(p) ==
    /\ feEnv.variant = "prop"
    /\ IF p = fe.filePath
       THEN UNCHANGED <<fe, feReads, feWatch>>
       ELSE FE_TargetChanged(p)
    /\ emitted' = <<>>
    /\ last' = Op("FE_PropFilePath", p # fe.filePath, "")
    /\ UNCHANGED <<FE_others, feEnv, feWrites>>

FE_FileOpen_Always(p) ==
    /\ feEnv.variant = "context"
    /\ FE_TargetChanged(p)
    /\ emitted' = <<>>
    /\ last' = Op("FE_FileOpen", p # fe.filePath, "")
    /\ UNCHANGED <<FE_others, feEnv, feWrites>>

\* Context-driven: a file:open event or an active-file slice update with
\* payload path p; a falsy path is ignored, an equal one re-renders nothing.
FE_FileOpen(p) ==
    /\ feEnv.variant = "context"
    /\ IF p = NoPath \/ p = fe.filePath
       THEN UNCHANGED <<fe, feReads, feWatch>>
       ELSE FE_TargetChanged(p)
    /\ emitted' = <<>>
    /\ last' = Op("FE_FileOpen", p # fe.filePath, "")
    /\ UNCHANGED <<FE_others, feEnv, feWrites>>

\* Context-driven handleClose: emit file:close, then setFilePath(null).
FE_Close ==
    /\ feEnv.variant = "context"
    /\ FE_headerShown
    /\ emitted' = <<[type |-> "file:close", path |-> fe.filePath]>>
    /\ FE_TargetChanged(NoPath)
    /\ last' = Op("FE_Close", FALSE, "")
    /\ UNCHANGED <<FE_others, feEnv, feWrites>>

\* The watchFile callback: if (!isSavingRef.current) loadFile()
FE_WatchFire ==
    /\ feWatch # {}
    /\ IF fe.isSavingRef
       THEN UNCHANGED <<fe, feReads>>
       ELSE /\ FE_inFlight < MaxInFlight
            /\ fe' = FE_syncDirtyRef(FE_loadFileSync(fe, fe.filePath))
            /\ feReads' = BagAdd(feReads, fe.filePath)
    /\ emitted' = <<>>
    /\ last' = Op("FE_WatchFire", FALSE, "")
    /\ UNCHANGED <<FE_others, feEnv, feWatch, feWrites>>

\* A readFile(p) promise settles with outcome o; loadFile resumes.
FE_ReadDone(p, o) ==
    /\ feReads[p] > 0
    /\ feReads' = BagRemove(feReads, p)
    /\ fe' = FE_syncDirtyRef(FE_loadFileResume(fe, p, o))
    /\ emitted' = <<>>
    /\ last' = Op("FE_ReadDone", p # fe.filePath, o.kind)
    /\ UNCHANGED <<FE_others, feEnv, feWatch, feWrites>>

\* handleEditorChange(value), wired to the editor widget when editable.
FE_handleEditorChange(v) ==
    /\ FE_isEditable
    /\ FE_editorShown
    /\ fe' = FE_syncDirtyRef(
                [fe EXCEPT !.editorContent = v,
                           !.isDirty = (v # fe.fileContent),
                           !.saveError = IF Truthy(@) THEN Null ELSE @])
    /\ emitted' = <<>>
    /\ last' = Op("FE_handleEditorChange", FALSE, "")
    /\ UNCHANGED <<FE_others, feEnv, feWatch, feReads, feWrites>>

\* const contentToSave = value ?? editorContent
FE_contentToSave(s, v) == IF v = NoValue THEN s.editorContent ELSE v

\* The early returns of handleEditorSave.
FE_saveIsNoop_Never(s, v) == FALSE

FE_saveIsNoop(s, v) ==
    \/ s.filePath = NoPath
    \/ ~feEnv.hasWriteFile
    \/ (~s.isDirty /\ FE_contentToSave(s, v) = s.fileContent)

\* handleEditorSave(value) up to its await.
FE_handleEditorSave(v) ==
    /\ IF FE_saveIsNoop(fe, v)
       THEN UNCHANGED <<fe, feWrites>>
       ELSE /\ FE_inFlight < MaxInFlight
            /\ fe' = [fe EXCEPT !.isSavingRef = TRUE,
                                !.isSaving = TRUE,
                                !.saveError = Null]
            /\ feWrites' = BagAdd(feWrites, <<fe.filePath, FE_contentToSave(fe, v)>>)
    /\ emitted' = <<>>
    /\ UNCHANGED <<FE_others, feEnv, feWatch, feReads>>

\* The editor widget's save command: onSave(value).
FE_EditorSave(v) ==
    /\ FE_isEditable
    /\ FE_editorShown
    /\ FE_handleEditorSave(v)
    /\ last' = Op("FE_EditorSave", FALSE, "")

\* The header's Save button: onClick={() => handleEditorSave()}
FE_SaveButton ==
    /\ FE_isEditable
    /\ FE_headerShown
    /\ fe.isDirty /\ ~fe.isSaving
    /\ FE_handleEditorSave(NoValue)
    /\ last' = Op("FE_SaveButton", FALSE, "")

\* A handleEditorSave that resumes without comparing latestFilePathRef to its path.
FE_saveResume_Unchecked(s, w, o) ==
    LET s1 == IF o = "ok"
              THEN [s EXCEPT !.fileContent = w[2],
                             !.editorContent = w[2],
                             !.isDirty = FALSE]
              ELSE [s EXCEPT !.saveError = ErrMessage(o, "Failed to save file")]
    IN  [s1 EXCEPT !.isSaving = FALSE, !.isSavingRef = FALSE]

\* handleEditorSave after its await, for the write w = <<path, content>>.
FE_saveResume(s, w, o) ==
    LET s1 == IF ~FE_isLatest(s, w[1]) THEN s
              ELSE IF o = "ok"
              THEN [s EXCEPT !.fileContent = w[2],
                             !.editorContent = w[2],
                             !.isDirty = FALSE]
              ELSE [s EXCEPT !.saveError = ErrMessage(o, "Failed to save file")]
        s2 == IF FE_isLatest(s, w[1]) THEN [s1 EXCEPT !.isSaving = FALSE] ELSE s1
    IN  [s2 EXCEPT !.isSavingRef = FALSE]

\* A handleEditorSave that emits file:save twice.
FE_saveEmits_Twice(s, w, o) ==
    IF feEnv.variant = "context" /\ o = "ok" /\ FE_isLatest(s, w[1])
    THEN <<[type |-> "file:save", path |-> w[1]], [type |-> "file:save", path |-> w[1]]>>
    ELSE <<>>

\* events.emit({type: 'file:save', payload: {path: filePath}}), context-driven only.
FE_saveEmits(s, w, o) ==
    IF feEnv.variant = "context" /\ o = "ok" /\ FE_isLatest(s, w[1])
    THEN <<[type |-> "file:save", path |-> w[1]]>>
    ELSE <<>>

\* A writeFile(path, content) promise settles with outcome o.
FE_WriteDone(w, o) ==
    /\ feWrites[w] > 0
    /\ feWrites' = BagRemove(feWrites, w)
    /\ fe' = FE_syncDirtyRef(FE_saveResume(fe, w, o))
    /\ emitted' = FE_saveEmits(fe, w, o)
    /\ last' = Op("FE_WriteDone", w[1] # fe.filePath, o)
    /\ UNCHANGED <<FE_others, feEnv, feWatch, feReads>>

FE_Next ==
    \/ \E p \in Paths \cup {NoPath} : FE_PropFilePath(p)
    \/ \E p \in Paths \cup {NoPath} : FE_FileOpen(p)
    \/ FE_Close
    \/ FE_WatchFire
    \/ \E p \in Paths, o \in ReadOutcomes : FE_ReadDone(p, o)
    \/ \E v \in Content : FE_handleEditorChange(v)
    \/ \E v \in Content \cup {NoValue} : FE_EditorSave(v)
    \/ FE_SaveButton
    \/ \E w \in WriteKeys, o \in WriteOutcomes : FE_WriteDone(w, o)


(* ================ context-driven markdown editor ====================== *)

\* The message cell loadError holds `Failed to load file: ${filePath}`: it is
\* modelled by the path the message names, NoPath standing for null.
MD_InitState ==
    [ filePath |-> NoPath,
      markdown |-> EmptyContent,
      isLoading |-> FALSE,
      loadError |-> NoPath,
      parseError |-> FALSE,
      isDirty |-> FALSE ]

MD_Envs == [hasReadFile : BOOLEAN, hasWriteFile : BOOLEAN]

\* A path the host can name that ends neither in .md nor in .mdx.
NonMarkdownPath == NPaths + 1
\* A test that takes every path for a markdown path.
MD_isMarkdown_Any(p) == TRUE

\* path.endsWith('.md') || path.endsWith('.mdx')
MD_isMarkdown(p) == p \in Paths

MD_inFlight == BagTotal(mdReads) + BagTotal(mdWrites)

MD_Idle ==
    /\ md = MD_InitState
    /\ mdEnv = [hasReadFile |-> TRUE, hasWriteFile |-> TRUE]
    /\ mdReads = [p \in Paths |-> 0]
    /\ mdWrites = [k \in WriteKeys |-> 0]

MD_Init ==
    /\ md = MD_InitState
    /\ mdEnv \in MD_Envs
    /\ mdReads = [p \in Paths |-> 0]
    /\ mdWrites = [k \in WriteKeys |-> 0]

\* const isEditable = Boolean(fileSystem?.writeFile)
MD_isEditable == mdEnv.hasWriteFile

\* The editor widget is rendered when no load is running, loadError is null
\* and a file is set.
MD_editorShown == ~md.isLoading /\ md.loadError = NoPath /\ md.filePath # NoPath

\* loadFileContent up to its await, for the path p of the render.
MD_loadSync(s, p) ==
    IF p = NoPath \/ ~mdEnv.hasReadFile
    THEN [s EXCEPT !.markdown = EmptyContent]
    ELSE [s EXCEPT !.isLoading = TRUE, !.loadError = NoPath]

\* loadFileContent after its await, for the path p it captured.
MD_loadResume(s, p, o) ==
    IF o.kind = "content"
    THEN [s EXCEPT !.markdown = o.value,
                   !.parseError = FALSE,
                   !.isDirty = FALSE,
                   !.isLoading = FALSE]
    ELSE [s EXCEPT !.loadError = p,
                   !.markdown = EmptyContent,
                   !.parseError = FALSE,
                   !.isLoading = FALSE]

\* A file:open event or an active-file slice update with payload path p: only
\* a truthy markdown path is taken; an equal one re-renders nothing.
MD_FileOpen(p) ==
    /\ IF p = NoPath \/ ~MD_isMarkdown(p) \/ p = md.filePath
       THEN UNCHANGED <<md, mdReads>>
       ELSE /\ mdEnv.hasReadFile => MD_inFlight < MaxInFlight
            /\ md' = MD_loadSync([md EXCEPT !.filePath = p], p)
            /\ mdReads' = IF mdEnv.hasReadFile THEN BagAdd(mdReads, p) ELSE mdReads
    /\ emitted' = <<>>
    /\ last' = Op("MD_FileOpen", p # md.filePath, "")
    /\ UNCHANGED <<MD_others, mdEnv, mdWrites>>

\* A readFile(p) promise settles with outcome o; loadFileContent resumes.
MD_ReadDone(p, o) ==
    /\ mdReads[p] > 0
    /\ mdReads' = BagRemove(mdReads, p)
    /\ md' = MD_loadResume(md, p, o)
    /\ emitted' = <<>>
    /\ last' = Op("MD_ReadDone", p # md.filePath, o.kind)
    /\ UNCHANGED <<MD_others, mdEnv, mdWrites>>

\* handleChange(value), the widget's onChange; a read-only widget reports none.
MD_handleChange(v) ==
    /\ MD_editorShown
    /\ MD_isEditable
    /\ md' = [md EXCEPT !.markdown = v, !.parseError = FALSE]
    /\ emitted' = <<>>
    /\ last' = Op("MD_handleChange", FALSE, "")
    /\ UNCHANGED <<MD_others, mdEnv, mdReads, mdWrites>>

\* onDirtyChange={setIsDirty}: the widget reports its dirty state.
MD_onDirtyChange(d) ==
    /\ MD_editorShown
    /\ MD_isEditable
    /\ md' = [md EXCEPT !.isDirty = d]
    /\ emitted' = <<>>
    /\ last' = Op("MD_onDirtyChange", FALSE, "")
    /\ UNCHANGED <<MD_others, mdEnv, mdReads, mdWrites>>

\* onError: setTimeout(() => setParseError(...), 0)
MD_onError ==
    /\ MD_editorShown
    /\ md' = [md EXCEPT !.parseError = TRUE]
    /\ emitted' = <<>>
    /\ last' = Op("MD_onError", FALSE, "")
    /\ UNCHANGED <<MD_others, mdEnv, mdReads, mdWrites>>

\* const contentToSave = content || markdown
MD_contentToSave(s, v) == IF v = EmptyContent THEN s.markdown ELSE v

\* handleSave(content) up to its await, wired to the widget's onSave.
MD_handleSave(v) ==
    /\ MD_editorShown
    /\ IF md.filePath # NoPath /\ mdEnv.hasWriteFile
       THEN /\ MD_inFlight < MaxInFlight
            /\ mdWrites' = BagAdd(mdWrites, <<md.filePath, MD_contentToSave(md, v)>>)
       ELSE UNCHANGED mdWrites
    /\ emitted' = <<>>
    /\ last' = Op("MD_handleSave", FALSE, "")
    /\ UNCHANGED <<MD_others, md, mdEnv, mdReads>>

\* handleSave after its await, for the write w = <<path, content>>.
MD_saveResume(s, w, o) == IF o = "ok" THEN [s EXCEPT !.isDirty = FALSE] ELSE s

\* events.emit({type: 'file:save', payload: {path: filePath}})
MD_saveEmits(s, w, o) ==
    IF o = "ok" THEN <<[type |-> "file:save", path |-> w[1]]>> ELSE <<>>

\* A writeFile(path, content) promise settles with outcome o.
MD_WriteDone(w, o) ==
    /\ mdWrites[w] > 0
    /\ mdWrites' = BagRemove(mdWrites, w)
    /\ md' = MD_saveResume(md, w, o)
    /\ emitted' = MD_saveEmits(md, w, o)
    /\ last' = Op("MD_WriteDone", w[1] # md.filePath, o)
    /\ UNCHANGED <<MD_others, mdEnv, mdReads>>

MD_Next ==
    \/ \E p \in Paths \cup {NoPath, NonMarkdownPath} : MD_FileOpen(p)
    \/ \E p \in Paths, o \in ReadOutcomes : MD_ReadDone(p, o)
    \/ \E v \in Content : MD_handleChange(v)
    \/ \E d \in BOOLEAN : MD_onDirtyChange(d)
    \/ MD_onError
    \/ \E v \in Content : MD_handleSave(v)
    \/ \E w \in WriteKeys, o \in WriteOutcomes : MD_WriteDone(w, o)

(* ===================== prop-driven diff viewer ======================== *)

\* GitChangeStatus
Statuses == {"staged", "unstaged", "untracked", "deleted"}

\* A promise of getOriginal / getModified that has not settled, and one whose
\* result nothing refers to any more (its loadDiff has resumed already).
Pending == [kind |-> "pending", value |-> EmptyContent]
Consumed == [kind |-> "consumed", value |-> EmptyContent]

\* The arguments getOriginal and getModified were called with: none yet.
NoCalls == <<>>

\* asked is not a cell of the panel: it holds the arguments of the provider
\* calls issued by the effect run of the last render that ran the effect.
GD_InitState ==
    [ filePath |-> NoPath,
      status |-> "unstaged",
      originalContent |-> EmptyContent,
      modifiedContent |-> EmptyContent,
      isLoading |-> FALSE,
      error |-> Null,
      asked |-> NoCalls ]

\* diffProvider.getOriginal(filePath, status), diffProvider.getModified(filePath, status)
GD_calls(s) ==
    [getOriginal |-> <<s.filePath, s.status>>, getModified |-> <<s.filePath, s.status>>]

\* A run of loadDiff whose two promises have not both settled: the isActive
\* flag of its effect run, the state of its two promises, and whether the
\* await of Promise.all has resumed.  The path and status it passed to the
\* provider are not read again after the calls are issued.
GD_NewRun ==
    [isActive |-> TRUE, original |-> Pending, modified |-> Pending, resumed |-> FALSE]

GD_Idle ==
    /\ gd = GD_InitState
    /\ gdLoads = EmptyBag

GD_Init == GD_Idle

\* original ?? '' : a promise resolved with null shows as the empty string.
GD_orEmpty(o) == IF o.kind = "content" THEN o.value ELSE EmptyContent

GD_rejected(o) == o.kind \in RejectKinds
GD_resolved(o) == o.kind \in {"content", "null"}

\* A loadDiff that never finds its effect run cleaned up.
GD_isActive_Always(r) == TRUE

\* if (!isActive) return : the flag of the effect run the closure belongs to.
GD_isActive(r) == r.isActive

\* The effect's cleanup: isActive = false in the run being replaced.
GD_cleanup(loads) ==
    LET active == {r \in BagToSet(loads) : r.isActive}
    IN  IF active = {} THEN loads
        ELSE LET r == CHOOSE x \in active : TRUE
             IN  (loads (-) SetToBag({r})) (+) SetToBag({[r EXCEPT !.isActive = FALSE]})

\* loadDiff up to its await, for the filePath p of the render.
GD_loadSync(s, p) ==
    IF p = NoPath
    THEN [s EXCEPT !.originalContent = EmptyContent,
                   !.modifiedContent = EmptyContent,
                   !.isLoading = FALSE,
                   !.error = Null,
                   !.asked = NoCalls]
    ELSE [s EXCEPT !.isLoading = TRUE, !.error = Null, !.asked = GD_calls(s)]

GD_PropTarget_PathOnly(p, st) ==
    /\ IF p = gd.filePath
       THEN gd' = [gd EXCEPT !.status = st] /\ UNCHANGED gdLoads
       ELSE /\ p # NoPath => BagCardinality(gdLoads) < MaxInFlight
            /\ gd' = GD_loadSync([gd EXCEPT !.filePath = p, !.status = st], p)
            /\ gdLoads' =
                 IF p = NoPath THEN GD_cleanup(gdLoads)
                 ELSE GD_cleanup(gdLoads) (+) SetToBag({GD_NewRun})
    /\ emitted' = <<>>
    /\ last' = Op("GD_PropTarget", p # gd.filePath \/ st # gd.status, "")
    /\ UNCHANGED GD_others

\* The parent renders the panel with filePath = p and status = st: when either
\* differs from the last render, the effect is cleaned up and run again, and
\* for a path getOriginal(p, st) and getModified(p, st) are both issued.
GD_PropTarget(p, st) ==
    /\ IF p = gd.filePath /\ st = gd.status
       THEN UNCHANGED <<gd, gdLoads>>
       ELSE /\ p # NoPath => BagCardinality(gdLoads) < MaxInFlight
            /\ gd' = GD_loadSync([gd EXCEPT !.filePath = p, !.status = st], p)
            /\ gdLoads' =
                 IF p = NoPath THEN GD_cleanup(gdLoads)
                 ELSE GD_cleanup(gdLoads) (+) SetToBag({GD_NewRun})
    /\ emitted' = <<>>
    /\ last' = Op("GD_PropTarget", p # gd.filePath \/ st # gd.status, "")
    /\ UNCHANGED GD_others

\* Promise.all settles in the run r: one side has rejected, or both have resolved.
GD_allSettles(r) ==
    /\ ~r.resumed
    /\ \/ GD_rejected(r.original) \/ GD_rejected(r.modified)
       \/ (GD_resolved(r.original) /\ GD_resolved(r.modified))

\* `Failed to load diff: ${err.message}` or 'Failed to load diff'
GD_errorText(o) ==
    CASE o.kind = "errMsg" -> "Failed to load diff: E"
      [] o.kind = "errEmpty" -> "Failed to load diff: "
      [] OTHER -> "Failed to load diff"

\* A loadDiff that, when one promise rejects, keeps what the other resolved with.
GD_loadResume_Partial(s, r) ==
    IF ~GD_isActive(r) THEN s
    ELSE IF GD_rejected(r.original) \/ GD_rejected(r.modified)
    THEN [s EXCEPT !.error = GD_errorText(IF GD_rejected(r.original)
                                          THEN r.original ELSE r.modified),
                   !.originalContent = GD_orEmpty(r.original),
                   !.modifiedContent = GD_orEmpty(r.modified),
                   !.isLoading = FALSE]
    ELSE [s EXCEPT !.originalContent = GD_orEmpty(r.original),
                   !.modifiedContent = GD_orEmpty(r.modified),
                   !.isLoading = FALSE]

\* loadDiff after its await, in the run r whose Promise.all has just settled.
GD_loadResume(s, r) ==
    IF ~GD_isActive(r) THEN s
    ELSE IF GD_rejected(r.original) \/ GD_rejected(r.modified)
    THEN [s EXCEPT !.error = GD_errorText(IF GD_rejected(r.original)
                                          THEN r.original ELSE r.modified),
                   !.originalContent = EmptyContent,
                   !.modifiedContent = EmptyContent,
                   !.isLoading = FALSE]
    ELSE [s EXCEPT !.originalContent = GD_orEmpty(r.original),
                   !.modifiedContent = GD_orEmpty(r.modified),
                   !.isLoading = FALSE]

\* The run r once loadDiff has resumed in it: its results are consumed.
GD_consume(r) ==
    [r EXCEPT !.resumed = TRUE,
              !.original = IF @ = Pending THEN Pending ELSE Consumed,
              !.modified = IF @ = Pending THEN Pending ELSE Consumed]

\* One promise of the run r settles, which makes the run r2: loadDiff resumes
\* if that settles Promise.all; the run is over when both promises have settled.
GD_Settle(r, r2) ==
    LET r3 == IF r2.resumed \/ GD_allSettles(r2) THEN GD_consume(r2) ELSE r2
    IN  /\ gd' = IF GD_allSettles(r2) THEN GD_loadResume(gd, r2) ELSE gd
        /\ gdLoads' =
             IF r3.original # Pending /\ r3.modified # Pending
             THEN gdLoads (-) SetToBag({r})
             ELSE (gdLoads (-) SetToBag({r})) (+) SetToBag({r3})
        /\ emitted' = <<>>
        /\ UNCHANGED GD_others

\* The getOriginal promise of the run r settles with outcome o.
GD_OriginalSettles(r, o) ==
    /\ BagIn(r, gdLoads)
    /\ r.original = Pending
    /\ GD_Settle(r, [r EXCEPT !.original = o])
    /\ last' = Op("GD_OriginalSettles", ~r.isActive, o.kind)

\* The getModified promise of the run r settles with outcome o.
GD_ModifiedSettles(r, o) ==
    /\ BagIn(r, gdLoads)
    /\ r.modified = Pending
    /\ GD_Settle(r, [r EXCEPT !.modified = o])
    /\ last' = Op("GD_ModifiedSettles", ~r.isActive, o.kind)

GD_Next ==
    \/ \E p \in Paths \cup {NoPath}, st \in Statuses : GD_PropTarget(p, st)
    \/ \E r \in BagToSet(gdLoads), o \in ReadOutcomes : GD_OriginalSettles(r, o)
    \/ \E r \in BagToSet(gdLoads), o \in ReadOutcomes : GD_ModifiedSettles(r, o)

(* ==================== context-driven diff viewer ====================== *)

\* originalOf is not a cell of the component: it remembers the path of the
\* git:diff event whose inline content the original snapshot holds, NoPath
\* when the snapshot is empty.
CD_InitState ==
    [ filePath |-> NoPath,
      status |-> "unstaged",
      originalContent |-> EmptyContent,
      modifiedContent |-> EmptyContent,
      isLoading |-> FALSE,
      error |-> Null,
      originalOf |-> NoPath ]

\* const fileSystem = context.adapters?.fileSystem
CD_Envs == [hasReadFile : BOOLEAN]

\* A run of loadDiff whose readFile has not settled: the isActive flag of its
\* effect run and the status its closure captured.
CD_NewRun(st) == [isActive |-> TRUE, status |-> st]

CD_Idle ==
    /\ cd = CD_InitState
    /\ cdEnv = [hasReadFile |-> TRUE]
    /\ cdLoads = EmptyBag

CD_Init ==
    /\ cd = CD_InitState
    /\ cdEnv \in CD_Envs
    /\ cdLoads = EmptyBag

\* payload.original ?? '' : an absent side is the empty string.
CD_orEmpty(v) == IF v = NoValue THEN EmptyContent ELSE v

\* payload.original !== undefined || payload.modified !== undefined
CD_hasInline(orig, modif) == orig # NoValue \/ modif # NoValue

\* setOriginalContent(v) on behalf of the path p.
CD_setOriginal(s, v, p) ==
    [s EXCEPT !.originalContent = v,
              !.originalOf = IF v = EmptyContent THEN NoPath ELSE p]

\* The git:diff handler for a payload with a truthy path.
CD_onGitDiff(s, p, st, orig, modif) ==
    LET s1 == [s EXCEPT !.filePath = p, !.status = st]
    IN  IF CD_hasInline(orig, modif)
        THEN [CD_setOriginal(s1, CD_orEmpty(orig), p)
                 EXCEPT !.modifiedContent = CD_orEmpty(modif),
                        !.isLoading = FALSE,
                        !.error = Null]
        ELSE s1

\* The effect's cleanup: isActive = false in the run being replaced.
CD_cleanup(loads) ==
    LET active == {r \in BagToSet(loads) : r.isActive}
    IN  IF active = {} THEN loads
        ELSE LET r == CHOOSE x \in active : TRUE
             IN  (loads (-) SetToBag({r})) (+) SetToBag({[r EXCEPT !.isActive = FALSE]})

\* Whether loadDiff, run for the path p, gets as far as readFile(p).
CD_reads(p) == p # NoPath /\ cdEnv.hasReadFile

\* loadDiff up to its await, for the filePath p of the render.
CD_loadSync(s, p) ==
    IF p = NoPath
    THEN [CD_setOriginal(s, EmptyContent, p)
             EXCEPT !.modifiedContent = EmptyContent,
                    !.isLoading = FALSE,
                    !.error = Null]
    ELSE IF ~cdEnv.hasReadFile THEN s
    ELSE [s EXCEPT !.isLoading = TRUE, !.error = Null]

\* A render in which filePath or status differs from the last one: the
\* effect on [filePath, status, fileSystem] is cleaned up and run again.
CD_TargetChanged(s) ==
    /\ CD_reads(s.filePath) => BagCardinality(cdLoads) < MaxInFlight
    /\ cd' = CD_loadSync(s, s.filePath)
    /\ cdLoads' =
         IF CD_reads(s.filePath)
         THEN CD_cleanup(cdLoads) (+) SetToBag({CD_NewRun(s.status)})
         ELSE CD_cleanup(cdLoads)

\* A git:diff event with payload path p, status st and the inline sides orig
\* and modif (NoValue: absent); a falsy path is ignored.  last.other tells
\* whether the event carried inline content.
CD_GitDiff(p, st, orig, modif) ==
    /\ IF p = NoPath
       THEN UNCHANGED <<cd, cdLoads>>
       ELSE LET s == CD_onGitDiff(cd, p, st, orig, modif)
            IN  IF p = cd.filePath /\ st = cd.status
                THEN cd' = s /\ UNCHANGED cdLoads
                ELSE CD_TargetChanged(s)
    /\ emitted' = <<>>
    /\ last' = Op("CD_GitDiff", CD_hasInline(orig, modif), "")
    /\ UNCHANGED <<CD_others, cdEnv>>

\* `Failed to load diff: ${err.message}` or 'Failed to load diff'
CD_errorText(o) ==
    CASE o.kind = "errMsg" -> "Failed to load diff: E"
      [] o.kind = "errEmpty" -> "Failed to load diff: "
      [] OTHER -> "Failed to load diff"

\* if (!isActive) return
CD_isActive(r) == r.isActive

\* loadDiff after its await, in the run r whose readFile settled with o.
CD_loadResume(s, r, o) ==
    IF ~CD_isActive(r) THEN s
    ELSE IF o.kind \in RejectKinds
    THEN [CD_setOriginal(s, EmptyContent, NoPath)
             EXCEPT !.error = CD_errorText(o),
                    !.modifiedContent = EmptyContent,
                    !.isLoading = FALSE]
    ELSE LET s1 == [s EXCEPT !.modifiedContent =
                                 IF o.kind = "content" THEN o.value ELSE EmptyContent,
                             !.isLoading = FALSE]
         IN  IF r.status = "untracked"
             THEN CD_setOriginal(s1, EmptyContent, NoPath)
             ELSE s1

\* The readFile promise of the run r settles with outcome o.
CD_ReadDone(r, o) ==
    /\ BagIn(r, cdLoads)
    /\ cdLoads' = cdLoads (-) SetToBag({r})
    /\ cd' = CD_loadResume(cd, r, o)
    /\ emitted' = <<>>
    /\ last' = Op("CD_ReadDone", ~r.isActive, o.kind)
    /\ UNCHANGED <<CD_others, cdEnv>>

\* handleClose: emit git:diff:close, then setFilePath(null); the button is
\* rendered when a file is set.
CD_Close_Silent ==
    /\ cd.filePath # NoPath
    /\ emitted' = <<>>
    /\ CD_TargetChanged([cd EXCEPT !.filePath = NoPath])
    /\ last' = Op("CD_Close", FALSE, "")
    /\ UNCHANGED <<CD_others, cdEnv>>

CD_Close ==
    /\ cd.filePath # NoPath
    /\ emitted' = <<[type |-> "git:diff:close", path |-> cd.filePath]>>
    /\ CD_TargetChanged([cd EXCEPT !.filePath = NoPath])
    /\ last' = Op("CD_Close", FALSE, "")
    /\ UNCHANGED <<CD_others, cdEnv>>

CD_Next ==
    \/ \E p \in Paths \cup {NoPath}, st \in Statuses,
          orig \in Content \cup {NoValue}, modif \in Content \cup {NoValue} :
            CD_GitDiff(p, st, orig, modif)
    \/ \E r \in BagToSet(cdLoads), o \in ReadOutcomes : CD_ReadDone(r, o)
    \/ CD_Close

(* ================== event bridge (createMockEvents) =================== *)

\* PanelEventType values the bridge is exercised with.
EventTypes == {"file:open", "file:save"}
\* Handler functions, by identity.
Handlers == 1..NHandlers
\* The place of an entry deleted from a Set while a forEach over it runs.
Hole == 0
\* No emit is running.
NoEmit == "none"

\* handlers: per event type the Set of handlers, as the list of its entries
\* in insertion order.  emitting, pos, called describe the forEach of the
\* emit in progress: its event type, the index of the entry visited last and
\* the handlers called so far.  atEmit, offed and handle are not cells of the
\* bridge: atEmit is the list of handlers subscribed to the type when emit was
\* called, offed the handlers unsubscribed from that type since, and handle
\* the cleanup function returned by the on() call that was the last step,
\* with the subscribers its type had before that call.
NoHandle == [type |-> NoEmit, handler |-> Hole, before |-> <<>>]

EB_InitState ==
    [ handlers |-> [t \in EventTypes |-> <<>>],
      emitting |-> NoEmit,
      pos |-> 0,
      called |-> <<>>,
      atEmit |-> <<>>,
      offed |-> {},
      handle |-> NoHandle ]

EB_Idle == eb = EB_InitState
EB_Init == EB_Idle

RECURSIVE EB_compact(_)
\* The entries of a Set that no forEach is walking: deleted ones are gone.
EB_compact(l) ==
    IF l = <<>> THEN <<>>
    ELSE IF Head(l) = Hole THEN EB_compact(Tail(l))
    ELSE <<Head(l)>> \o EB_compact(Tail(l))

\* handlers.get(type).has(handler)
EB_has(l, h) == \E i \in 1..Len(l) : l[i] = h

\* Set.prototype.add: a value already in the Set keeps its place.
EB_add(l, h) == IF EB_has(l, h) THEN l ELSE Append(l, h)

EB_delete_Splice(l, h, walked) ==
    EB_compact([i \in 1..Len(l) |-> IF l[i] = h THEN Hole ELSE l[i]])

\* Set.prototype.delete: while a forEach walks the Set the entry's place
\* stays, so that the walk's index still counts it.
EB_delete(l, h, walked) ==
    LET holed == [i \in 1..Len(l) |-> IF l[i] = h THEN Hole ELSE l[i]]
    IN  IF walked THEN holed ELSE EB_compact(holed)

\* Code that may call on / off: any code while no emit runs, the handler
\* being called while one runs.
EB_mayCall == eb.emitting = NoEmit \/ eb.pos > 0

\* on(type, handler)
EB_on(t, h) ==
    /\ EB_mayCall
    /\ Len(eb.handlers[t]) < MaxEntries \/ EB_has(eb.handlers[t], h)
    /\ eb' = [eb EXCEPT !.handlers[t] = EB_add(@, h),
                        !.handle = [type |-> t, handler |-> h,
                                    before |-> EB_compact(eb.handlers[t])]]
    /\ emitted' = <<>>
    /\ last' = Op("EB_on", eb.emitting # NoEmit, "")
    /\ UNCHANGED EB_others

\* off(type, handler), and the cleanup function on(type, handler) returned
EB_off(t, h) ==
    /\ EB_mayCall
    /\ eb' = [eb EXCEPT !.handlers[t] = EB_delete(@, h, eb.emitting = t),
                        !.offed = IF eb.emitting = t /\ EB_has(eb.handlers[t], h)
                                  THEN @ \cup {h} ELSE @,
                        !.handle = NoHandle]
    /\ emitted' = <<>>
    /\ last' = Op("EB_off", eb.emitting # NoEmit, "")
    /\ UNCHANGED EB_others

\* emit(event) is called with event.type = t: eventHandlers.forEach begins.
EB_emit(t) ==
    /\ eb.emitting = NoEmit
    /\ eb' = [eb EXCEPT !.emitting = t,
                        !.pos = 0,
                        !.called = <<>>,
                        !.atEmit = eb.handlers[t],
                        !.offed = {},
                        !.handle = NoHandle]
    /\ emitted' = <<>>
    /\ last' = Op("EB_emit", FALSE, "")
    /\ UNCHANGED EB_others

\* The indices forEach has still to visit: the entries after the one visited
\* last that have not been deleted.
EB_toVisit ==
    {i \in (eb.pos + 1)..Len(eb.handlers[eb.emitting]) :
        eb.handlers[eb.emitting][i] # Hole}

\* forEach calls the next handler: handler(event).
EB_call ==
    /\ eb.emitting # NoEmit
    /\ EB_toVisit # {}
    /\ LET i == CHOOSE j \in EB_toVisit : \A k \in EB_toVisit : j <= k
       IN  eb' = [eb EXCEPT !.pos = i,
                            !.called = Append(@, eb.handlers[eb.emitting][i]),
                            !.handle = NoHandle]
    /\ emitted' = <<>>
    /\ last' = Op("EB_call", FALSE, "")
    /\ UNCHANGED EB_others

\* forEach has visited every entry: emit returns.
EB_return ==
    /\ eb.emitting # NoEmit
    /\ EB_toVisit = {}
    /\ eb' = [eb EXCEPT !.emitting = NoEmit,
                        !.pos = 0,
                        !.handlers[eb.emitting] = EB_compact(@),
                        !.handle = NoHandle]
    /\ emitted' = <<>>
    /\ last' = Op("EB_return", FALSE, "")
    /\ UNCHANGED EB_others

EB_Next ==
    \/ \E t \in EventTypes, h \in Handlers : EB_on(t, h)
    \/ \E t \in EventTypes, h \in Handlers : EB_off(t, h)
    \/ \E t \in EventTypes : EB_emit(t)
    \/ EB_call
    \/ EB_return

(* ========================= language mapping =========================== *)

\* A path is the list of the pieces its '.' characters separate, which is what
\* path.split('.') returns: <<"x", "TSX">> is x.TSX, <<"ts">> is a file named
\* ts, <<"x", "">> is x. and <<"">> is the empty string.  These are the pieces
\* paths are made of here.
Pieces ==
    {"", "x", "ts", "TSX", "Md", "mdx", "h", "Makefile", "constructor", "unknownext"}

\* filePath === null
NullPath == <<>>

LanguagePaths ==
    {NullPath} \cup UNION {[1..n -> Pieces] : n \in 1..MaxPieces}

toLowerCase_Identity(w) == w

\* String.prototype.toLowerCase, on the pieces.
toLowerCase(w) ==
    CASE w = "TSX" -> "tsx"
      [] w = "Md" -> "md"
      [] w = "Makefile" -> "makefile"
      [] OTHER -> w

\* The languageMap of getLanguage.
FE_languageMap ==
    "js" :> "javascript" @@ "jsx" :> "javascript" @@ "ts" :> "typescript"
    @@ "tsx" :> "typescript" @@ "py" :> "python" @@ "java" :> "java"
    @@ "c" :> "c" @@ "cpp" :> "cpp" @@ "cs" :> "csharp" @@ "php" :> "php"
    @@ "rb" :> "ruby" @@ "go" :> "go" @@ "rs" :> "rust" @@ "kt" :> "kotlin"
    @@ "swift" :> "swift" @@ "json" :> "json" @@ "xml" :> "xml"
    @@ "html" :> "html" @@ "css" :> "css" @@ "scss" :> "scss"
    @@ "sass" :> "sass" @@ "less" :> "less" @@ "sql" :> "sql" @@ "sh" :> "bash"
    @@ "bash" :> "bash" @@ "zsh" :> "bash" @@ "yaml" :> "yaml" @@ "yml" :> "yaml"
    @@ "toml" :> "toml" @@ "ini" :> "ini" @@ "cfg" :> "ini" @@ "conf" :> "ini"
    @@ "md" :> "markdown" @@ "mdx" :> "markdown"

\* The languageMap of languageFromPath: that of getLanguage and h, hpp.
GD_languageMap == FE_languageMap @@ "h" :> "c" @@ "hpp" :> "cpp"

\* What a plain object inherits from Object.prototype under a lower-case
\* name, and what reading such a property gives: a function or an object,
\* not a string.
ObjectPrototype == {"constructor", "__proto__"}
Inherited == "[inherited from Object.prototype]"

\* languageMap[ext] || 'plaintext' and languageMap[ext] ?? 'plaintext': the
\* table's values are non-empty strings, an inherited member is truthy.
LG_lookup(languageMap, ext) ==
    IF ext \in DOMAIN languageMap THEN languageMap[ext]
    ELSE IF ext \in ObjectPrototype THEN Inherited
    ELSE "plaintext"

\* path.split('.').pop()?.toLowerCase()
LG_ext(p) == toLowerCase(p[Len(p)])

\* const language = filePath ? getLanguage(filePath) : 'plaintext'
getLanguage(p) ==
    IF p = NullPath \/ p = <<"">> THEN "plaintext"
    ELSE LG_lookup(FE_languageMap, LG_ext(p))

\* languageFromPath(filePath)
languageFromPath(p) ==
    IF p = NullPath \/ p = <<"">> THEN "plaintext"
    ELSE LG_lookup(GD_languageMap, LG_ext(p))

\* No path has been rendered.
LG_Idle == lg = [path |-> NullPath, by |-> "none", language |-> "plaintext"]

\* The file editor renders with filePath = p.
LG_FileEditorRender(p) ==
    /\ lg' = [path |-> p, by |-> "getLanguage", language |-> getLanguage(p)]
    /\ emitted' = <<>>
    /\ last' = Op("LG_FileEditorRender", FALSE, "")
    /\ UNCHANGED LG_others

\* A diff viewer renders with filePath = p.
LG_DiffViewerRender(p) ==
    /\ lg' = [path |-> p, by |-> "languageFromPath", language |-> languageFromPath(p)]
    /\ emitted' = <<>>
    /\ last' = Op("LG_DiffViewerRender", FALSE, "")
    /\ UNCHANGED LG_others

LG_Next ==
    \/ \E p \in LanguagePaths : LG_FileEditorRender(p)
    \/ \E p \in LanguagePaths : LG_DiffViewerRender(p)

(* =================== prop-driven markdown editor ====================== *)

\* The initialContent prop: a non-empty text.
PM_initialContent == MaxContent

\* The panel after its mount without a file. pmEnv is the contentProvider
\* prop: whether it has writeFile, and what readFile resolves with for each
\* path when it succeeds. pmRuns counts the promises that have not settled:
\* the auto-save write and the read of a loadFileContent run for a path, and
\* the write of a handleSave. touched is a ghost cell: the user acted on the
\* editor since filePath last changed.
PM_Init ==
    /\ pm = [ filePath |-> NoPath,
              currentFilePath |-> NoPath,
              markdown |-> PM_initialContent,
              isLoading |-> FALSE,
              loadError |-> NoPath,
              isDirty |-> FALSE,
              touched |-> FALSE ]
    /\ pmEnv \in [hasWriteFile : BOOLEAN, files : [Paths -> Content]]
    /\ pmRuns = [k \in (Paths \X {"save", "read"}) \cup {<<NoPath, "handleSave">>} |-> 0]
    /\ pmCalls = <<>>

PM_Idle ==
    /\ PM_Init
    /\ pmEnv = [hasWriteFile |-> TRUE, files |-> [p \in Paths |-> EmptyContent]]

\* A load effect that runs again only when the filePath prop changes.
PM_loadDeps_PathOnly(s) == <<s.filePath>>

\* The dependencies of the load effect that a render can change.
PM_loadDeps(s) == <<s.filePath, s.currentFilePath, s.isDirty, s.markdown>>

\* A loadFileContent that reads without saving the current file first.
PM_autoSaves_Never(s) == FALSE

\* if (currentFilePath && isDirty && contentProvider.writeFile)
PM_autoSaves(s) == s.currentFilePath # NoPath /\ s.isDirty /\ pmEnv.hasWriteFile

\* The commit of a render new after a render old: the cleanup of the
\* auto-save-on-unmount effect, run with the values of old when one of that
\* effect's dependencies changed, then loadFileContent up to its first await
\* if a dependency of the load effect changed. r collects the provider calls
\* made and the promises left pending.
RECURSIVE PM_commit(_, _, _)
PM_commit(old, new, r) ==
    LET cleanup ==
            IF /\ <<old.currentFilePath, old.isDirty, old.markdown>>
                      # <<new.currentFilePath, new.isDirty, new.markdown>>
               /\ old.currentFilePath # NoPath /\ old.isDirty /\ pmEnv.hasWriteFile
            THEN << [call |-> "writeFile", path |-> old.currentFilePath,
                     content |-> old.markdown] >>
            ELSE <<>>
        r1 == [r EXCEPT !.calls = @ \o cleanup]
        p  == new.filePath
    IN  IF PM_loadDeps(old) = PM_loadDeps(new)
        THEN [r1 EXCEPT !.s = new]
        ELSE IF p = NoPath
        THEN PM_commit(new, [new EXCEPT !.markdown = PM_initialContent,
                                        !.currentFilePath = NoPath], r1)
        ELSE IF p = new.currentFilePath
        THEN [r1 EXCEPT !.s = new]
        ELSE IF PM_autoSaves(new)
        THEN [ s |-> new,
               calls |-> Append(r1.calls, [call |-> "writeFile", path |-> new.currentFilePath,
                                           content |-> new.markdown]),
               runs |-> BagAdd(r1.runs, <<p, "save">>) ]
        ELSE [ s |-> [new EXCEPT !.isLoading = TRUE, !.loadError = NoPath],
               calls |-> Append(r1.calls, [call |-> "readFile", path |-> p, content |-> EmptyContent]),
               runs |-> BagAdd(r1.runs, <<p, "read">>) ]

\* A handler sets the state cells to new; runs are the promises then pending.
PM_setState(new, runs) ==
    LET r == PM_commit(pm, new, [s |-> pm, calls |-> <<>>, runs |-> runs])
    IN  /\ BagTotal(r.runs) <= MaxInFlight
        /\ pm' = r.s
        /\ pmRuns' = r.runs
        /\ pmCalls' = r.calls
        /\ emitted' = <<>>
        /\ UNCHANGED <<feVars, mdVars, gdVars, cdVars, eb, lg, mounted, pmEnv>>

\* The parent renders the panel with filePath = p.
PM_PropFilePath(p) ==
    /\ PM_setState([pm EXCEPT !.filePath = p,
                               !.touched = IF p # pm.filePath THEN FALSE ELSE @], pmRuns)
    /\ last' = Op("PM_PropFilePath", p # pm.filePath, "")

\* handleChange(value), the editor widget's onChange; the widget is rendered
\* when no load is running and loadError is null.
PM_handleChange(v) ==
    /\ ~pm.isLoading /\ pm.loadError = NoPath
    /\ PM_setState([pm EXCEPT !.markdown = v, !.touched = TRUE], pmRuns)
    /\ last' = Op("PM_handleChange", FALSE, "")

\* onDirtyChange={setIsDirty}
PM_onDirtyChange(d) ==
    /\ ~pm.isLoading /\ pm.loadError = NoPath
    /\ PM_setState([pm EXCEPT !.isDirty = d, !.touched = TRUE], pmRuns)
    /\ last' = Op("PM_onDirtyChange", FALSE, "")

\* handleSave(content) up to its await; contentToSave = content || markdown.
PM_handleSave(v) ==
    /\ ~pm.isLoading /\ pm.loadError = NoPath
    /\ IF pm.currentFilePath # NoPath /\ pmEnv.hasWriteFile
       THEN /\ BagTotal(pmRuns) < MaxInFlight
            /\ pmRuns' = BagAdd(pmRuns, <<NoPath, "handleSave">>)
            /\ pmCalls' = << [call |-> "writeFile", path |-> pm.currentFilePath,
                              content |-> IF v = EmptyContent THEN pm.markdown ELSE v] >>
       ELSE /\ pmRuns' = pmRuns
            /\ pmCalls' = <<>>
    /\ emitted' = <<>>
    /\ last' = Op("PM_handleSave", FALSE, "")
    /\ pm' = [pm EXCEPT !.touched = TRUE]
    /\ UNCHANGED <<feVars, mdVars, gdVars, cdVars, eb, lg, mounted, pmEnv>>

\* The writeFile promise of a handleSave settles with outcome o.
PM_SaveDone(o) ==
    /\ pmRuns[<<NoPath, "handleSave">>] > 0
    /\ PM_setState(IF o = "ok" THEN [pm EXCEPT !.isDirty = FALSE] ELSE pm,
                   BagRemove(pmRuns, <<NoPath, "handleSave">>))
    /\ last' = Op("PM_SaveDone", FALSE, o)

\* The auto-save write of a loadFileContent run for p settles, resolved or
\* rejected: the run goes on to read p.
PM_AutoSaveDone(p, o) ==
    /\ pmRuns[<<p, "save">>] > 0
    /\ pm' = [pm EXCEPT !.isLoading = TRUE, !.loadError = NoPath]
    /\ pmRuns' = BagAdd(BagRemove(pmRuns, <<p, "save">>), <<p, "read">>)
    /\ pmCalls' = << [call |-> "readFile", path |-> p, content |-> EmptyContent] >>
    /\ emitted' = <<>>
    /\ last' = Op("PM_AutoSaveDone", p # pm.filePath, o)
    /\ UNCHANGED <<feVars, mdVars, gdVars, cdVars, eb, lg, mounted, pmEnv>>

\* The readFile(p) promise of a loadFileContent run settles with outcome o.
PM_ReadDone(p, o) ==
    /\ pmRuns[<<p, "read">>] > 0
    /\ PM_setState(IF o = "content"
                   THEN [pm EXCEPT !.markdown = pmEnv.files[p], !.currentFilePath = p,
                                   !.isDirty = FALSE, !.isLoading = FALSE]
                   ELSE [pm EXCEPT !.loadError = p, !.markdown = PM_initialContent,
                                   !.isLoading = FALSE],
                   BagRemove(pmRuns, <<p, "read">>))
    /\ last' = Op("PM_ReadDone", p # pm.filePath, o)

PM_Next ==
    \/ \E p \in Paths \cup {NoPath} : PM_PropFilePath(p)
    \/ \E v \in Content : PM_handleChange(v)
    \/ \E d \in BOOLEAN : PM_onDirtyChange(d)
    \/ \E v \in Content : PM_handleSave(v)
    \/ \E o \in WriteOutcomes : PM_SaveDone(o)
    \/ \E p \in Paths, o \in WriteOutcomes : PM_AutoSaveDone(p, o)
    \/ \E p \in Paths, o \in {"content", "null", "errMsg"} : PM_ReadDone(p, o)

(* ========================== specifications ============================ *)

\* Nothing has been emitted, no handler has run, no path has been rendered.
BridgeInit ==
    /\ LG_Idle
    /\ PM_Idle
    /\ emitted = <<>>
    /\ last = [op |-> "init", other |-> FALSE, ok |-> TRUE]

\* The context-driven markdown editor alone.
InitMD == MD_Init /\ FE_Idle /\ GD_Idle /\ CD_Idle /\ EB_Idle /\ BridgeInit /\ mounted = "MD"
SpecMD == InitMD /\ [][MD_Next]_vars

\* The prop-driven diff viewer alone.
InitGD == GD_Init /\ FE_Idle /\ MD_Idle /\ CD_Idle /\ EB_Idle /\ BridgeInit /\ mounted = "GD"
SpecGD == InitGD /\ [][GD_Next]_vars

\* The file editor alone.
InitFE == FE_Init /\ MD_Idle /\ GD_Idle /\ CD_Idle /\ EB_Idle /\ BridgeInit /\ mounted = "FE"
SpecFE == InitFE /\ [][FE_Next]_vars

\* The context-driven diff viewer alone.
InitCD == CD_Init /\ FE_Idle /\ MD_Idle /\ GD_Idle /\ EB_Idle /\ BridgeInit /\ mounted = "CD"
SpecCD == InitCD /\ [][CD_Next]_vars

\* The language mapping of the file editor's and the diff viewers' renders.
InitLG ==
    /\ FE_Idle /\ MD_Idle /\ GD_Idle /\ CD_Idle /\ EB_Idle /\ BridgeInit
    /\ mounted = "LG"
SpecLG == InitLG /\ [][LG_Next]_vars

\* The panel the host has mounted: the file editor, the context-driven
\* markdown editor, or one of the two diff viewers.
InitPanels ==
    /\ mounted \in {"FE", "MD", "GD", "CD"}
    /\ IF mounted = "FE" THEN FE_Init ELSE FE_Idle
    /\ IF mounted = "MD" THEN MD_Init ELSE MD_Idle
    /\ IF mounted = "GD" THEN GD_Init ELSE GD_Idle
    /\ IF mounted = "CD" THEN CD_Init ELSE CD_Idle
    /\ EB_Idle /\ BridgeInit
PanelsNext ==
    \/ mounted = "FE" /\ FE_Next
    \/ mounted = "MD" /\ MD_Next
    \/ mounted = "GD" /\ GD_Next
    \/ mounted = "CD" /\ CD_Next
SpecPanels == InitPanels /\ [][PanelsNext]_vars

\* The prop-driven markdown editor alone.
InitPM ==
    /\ PM_Init /\ FE_Idle /\ MD_Idle /\ GD_Idle /\ CD_Idle /\ EB_Idle /\ LG_Idle
    /\ emitted = <<>>
    /\ last = [op |-> "init", other |-> FALSE, ok |-> TRUE]
    /\ mounted = "PM"
SpecPM == InitPM /\ [][PM_Next]_vars

\* The event bridge alone.
InitEB == EB_Init /\ FE_Idle /\ MD_Idle /\ GD_Idle /\ CD_Idle /\ BridgeInit /\ mounted = "EB"
SpecEB == InitEB /\ [][EB_Next]_vars

(* ==================== claims about the file editor ==================== *)

\* The cells a completed read may write.
FE_loadCells(s) == <<s.fileContent, s.editorContent, s.error, s.isLoading>>

\* C1: when a readFile settles for a path that is not the panel's target (the
\* target changed from a to b while a's read was in flight), whatever the
\* outcome and whether b's read is still outstanding or not, the persisted
\* snapshot, the working snapshot, the load error and the loading flag stay as
\* they are; a read that succeeds for the target while the panel is not dirty
\* makes its content the persisted and the displayed content; and from a target
\* change until a read of the new target settles the panel is not dirty.
C1_StaleReadDiscarded ==
    [][ /\ last'.op = "FE_ReadDone" =>
             \A p \in Paths, o \in ReadOutcomes :
               /\ (p # fe.filePath /\ FE_ReadDone(p, o))
                      => FE_loadCells(fe') = FE_loadCells(fe)
               /\ (p = fe.filePath /\ o.kind = "content" /\ ~fe.isDirty /\ FE_ReadDone(p, o))
                      => /\ fe'.fileContent = o.value
                         /\ fe'.editorContent = o.value
        /\ (fe'.filePath # fe.filePath /\ fe'.filePath # NoPath)
               => (fe'.isLoading /\ ~fe'.isDirty)
        /\ (fe.isLoading /\ ~fe.isDirty) => ~fe'.isDirty
      ]_vars

\* C1 witness: a's read has just settled after b's: the target is b, b's content
\* is loaded and no read of b is outstanding.
C1_Witness ==
    /\ last.op = "FE_ReadDone" /\ last.other
    /\ fe.filePath # NoPath
    /\ feReads[fe.filePath] = 0
    /\ ~fe.isLoading /\ fe.error = Null
    /\ fe.fileContent # EmptyContent

\* C3: from a dirty state, a file-watch notification and the completion of a
\* read (any outcome) leave the working snapshot as it is; the only steps
\* that change the working snapshot of a dirty panel are an edit, the
\* completion of a successful save, and a target switch.
C3_DirtyWorkingKept ==
    [][ fe.isDirty =>
          /\ (/\ last'.op \in {"FE_WatchFire", "FE_ReadDone"}
              /\ (FE_WatchFire \/ \E p \in Paths, o \in ReadOutcomes : FE_ReadDone(p, o)))
                 => fe'.editorContent = fe.editorContent
          /\ fe'.editorContent # fe.editorContent
                 => \/ \E v \in Content : FE_handleEditorChange(v)
                    \/ \E w \in WriteKeys : FE_WriteDone(w, "ok")
                    \/ fe'.filePath # fe.filePath
      ]_vars

\* C3 witness: a read of the target has just succeeded on a dirty panel: the
\* persisted snapshot is the new content, the working snapshot still differs.
C3_Witness ==
    /\ last.op = "FE_ReadDone" /\ ~last.other /\ last.ok
    /\ fe.isDirty
    /\ fe.editorContent # fe.fileContent

C5_SaveFailureKeepsEdits ==
    [][ \A w \in WriteKeys, o \in RejectKinds :
          (FE_WriteDone(w, o) /\ w[1] = fe.filePath /\ fe.isDirty /\ fe.editorContent = w[2])
              => /\ fe'.editorContent = w[2]
                 /\ fe'.fileContent = fe.fileContent
                 /\ fe'.isDirty
                 /\ ~fe'.isSaving
                 /\ Truthy(fe'.saveError)
                 /\ emitted' = <<>>
      ]_vars

\* C5, all of it but the message being non-empty: the save-error cell is set
\* to the rejection's message, which is empty for an Error without a message.
C5_SaveFailureSetsMessage ==
    [][ \A w \in WriteKeys, o \in RejectKinds :
          (FE_WriteDone(w, o) /\ w[1] = fe.filePath /\ fe.isDirty /\ fe.editorContent = w[2])
              => /\ fe'.editorContent = w[2]
                 /\ fe'.fileContent = fe.fileContent
                 /\ fe'.isDirty
                 /\ ~fe'.isSaving
                 /\ fe'.saveError = ErrMessage(o, "Failed to save file")
                 /\ emitted' = <<>>
      ]_vars

\* C8: with a target set, no load in progress and no load error, the panel is
\* dirty exactly when the working snapshot differs from the persisted one.
C8_DirtyIffDiffers ==
    (fe.filePath # NoPath /\ ~fe.isLoading /\ fe.error = Null)
        => (fe.isDirty <=> fe.editorContent # fe.fileContent)

\* C9: when a write settles for a path that is not the panel's target (the
\* target changed while the write was in flight), success or failure, the
\* persisted snapshot, working snapshot, dirty flag, saving flag and save
\* error of the panel stay and no event is emitted; a target change removes
\* no write from the provider.
C9_StaleWriteDiscarded ==
    [][ /\ last'.op = "FE_WriteDone" =>
             \A w \in WriteKeys, o \in WriteOutcomes :
               (w[1] # fe.filePath /\ FE_WriteDone(w, o))
                 => /\ fe'.fileContent = fe.fileContent
                    /\ fe'.editorContent = fe.editorContent
                    /\ fe'.isDirty = fe.isDirty
                    /\ fe'.isSaving = fe.isSaving
                    /\ fe'.saveError = fe.saveError
                    /\ emitted' = <<>>
        /\ fe'.filePath # fe.filePath => feWrites' = feWrites
      ]_vars

\* C9 witness: a's write has just succeeded while the target is b, and b is
\* dirty with a save of its own in flight.
C9_Witness ==
    /\ last.op = "FE_WriteDone" /\ last.other /\ last.ok
    /\ fe.filePath # NoPath
    /\ fe.isDirty /\ fe.isSaving
    /\ \E c \in Content : feWrites[<<fe.filePath, c>>] > 0

(* ============ claims about the context-driven markdown editor ========= *)

\* C2: when a readFile settles for a path that is not the markdown editor's
\* target (the target changed from a to b while a's read was in flight), its
\* result is discarded: the markdown content, the loading flag and the load
\* error stay as they are.
C2_StaleMarkdownReadDiscarded ==
    [][ \A p \in Paths, o \in ReadOutcomes :
          (MD_ReadDone(p, o) /\ p # md.filePath)
              => /\ md'.markdown = md.markdown
                 /\ md'.isLoading = md.isLoading
                 /\ md'.loadError = md.loadError
      ]_vars

\* C10: when a write of the markdown editor succeeds, the dirty flag is
\* cleared and one file:save event is emitted if the write's path is still the
\* target; otherwise the dirty flag stays and nothing is emitted.
C10_SaveEffectsOnlyForTarget ==
    [][ \A w \in WriteKeys :
          MD_WriteDone(w, "ok")
              => IF w[1] = md.filePath
                 THEN /\ ~md'.isDirty
                      /\ emitted' = <<[type |-> "file:save", path |-> md.filePath]>>
                 ELSE /\ md'.isDirty = md.isDirty
                      /\ emitted' = <<>>
      ]_vars

(* ============== claims about the prop-driven diff viewer ============== *)

\* The two snapshots the diff widget shows.
GD_snapshots(s) == <<s.originalContent, s.modifiedContent>>

\* The runs of loadDiff whose effect has not been cleaned up.
GD_activeRuns(loads) == {r \in BagToSet(loads) : r.isActive}

\* C6: when getOriginal or getModified of the current target's request is the
\* first of the two to reject, the error message is set, loading is false and
\* both snapshots are empty, and the other promise settling afterwards changes
\* nothing; while an error is shown both snapshots are empty; a promise that
\* resolves while the other is outstanding writes nothing, so the snapshots
\* change only to the pair a request resolved with or to the empty pair.
C6_RejectionClearsBoth ==
    /\ [][ \A r \in GD_activeRuns(gdLoads), o \in ReadOutcomes :
             (/\ last'.op \in {"GD_OriginalSettles", "GD_ModifiedSettles"}
              /\ ~last'.other
              /\ (GD_OriginalSettles(r, o) \/ GD_ModifiedSettles(r, o))) =>
                 /\ (~r.resumed /\ GD_rejected(o))
                        => /\ gd'.error # Null
                           /\ ~gd'.isLoading
                           /\ GD_snapshots(gd') = <<EmptyContent, EmptyContent>>
                 /\ r.resumed => gd' = gd
                 /\ (~r.resumed /\ GD_resolved(o)
                        /\ (r.original = Pending /\ r.modified = Pending))
                        => gd' = gd
                 /\ GD_snapshots(gd') # GD_snapshots(gd)
                        => \/ GD_snapshots(gd') = <<EmptyContent, EmptyContent>>
                           \/ /\ GD_OriginalSettles(r, o)
                              /\ GD_resolved(r.modified)
                              /\ GD_snapshots(gd') = <<GD_orEmpty(o), GD_orEmpty(r.modified)>>
                           \/ /\ GD_ModifiedSettles(r, o)
                              /\ GD_resolved(r.original)
                              /\ GD_snapshots(gd') = <<GD_orEmpty(r.original), GD_orEmpty(o)>>
         ]_vars
    /\ [](gd.error # Null
            => /\ ~gd.isLoading
               /\ GD_snapshots(gd) = <<EmptyContent, EmptyContent>>)

\* C6 witness: a promise of the current target's request has just rejected
\* and none of the request is outstanding: the error is shown, nothing loads,
\* both snapshots are empty.
C6_Witness ==
    /\ last.op \in {"GD_OriginalSettles", "GD_ModifiedSettles"}
    /\ ~last.ok /\ ~last.other
    /\ gdLoads = EmptyBag
    /\ gd.filePath # NoPath
    /\ gd.error # Null /\ ~gd.isLoading
    /\ GD_snapshots(gd) = <<EmptyContent, EmptyContent>>

\* C7: a promise that settles in a request issued for a replaced target,
\* resolved or rejected, first or last, leaves the whole panel state as it is;
\* replacing the target makes every request issued before it a superseded
\* one, and at most one request is not superseded.
C7_SupersededNeverWritten ==
    /\ [][ /\ last'.op \in {"GD_OriginalSettles", "GD_ModifiedSettles"} =>
                 \A r \in BagToSet(gdLoads) \ GD_activeRuns(gdLoads), o \in ReadOutcomes :
                     (GD_OriginalSettles(r, o) \/ GD_ModifiedSettles(r, o))
                         => gd' = gd
           /\ (gd'.filePath # gd.filePath \/ gd'.status # gd.status)
                 => /\ GD_activeRuns(gdLoads') \subseteq {GD_NewRun}
                    /\ gd'.filePath = NoPath => GD_activeRuns(gdLoads') = {}
                    /\ BagCardinality(gdLoads')
                         = BagCardinality(gdLoads) + (IF gd'.filePath = NoPath THEN 0 ELSE 1)
         ]_vars
    /\ [](/\ Cardinality(GD_activeRuns(gdLoads)) <= 1
          /\ \A r \in GD_activeRuns(gdLoads) : CopiesIn(r, gdLoads) = 1)

\* C7 witness: a promise of a superseded request has resolved last of all: the
\* new target's snapshots are shown and nothing is outstanding.
C7_Witness ==
    /\ last.op \in {"GD_OriginalSettles", "GD_ModifiedSettles"}
    /\ last.other /\ last.ok
    /\ gdLoads = EmptyBag
    /\ gd.filePath # NoPath
    /\ gd.error = Null /\ ~gd.isLoading
    /\ gd.modifiedContent # EmptyContent

\* C11: prop-driven: a file-watch notification received while the panel is
\* dirty issues no read and changes no panel state; received while the panel
\* is neither dirty nor saving it issues exactly one read of the target.
C11_WatchWhileDirtyIgnored ==
    [][ (last'.op = "FE_WatchFire" /\ FE_WatchFire) =>
          /\ fe.isDirty => (feReads' = feReads /\ fe' = fe)
          /\ (~fe.isDirty /\ ~fe.isSaving)
                 => feReads' = BagAdd(feReads, fe.filePath)
      ]_vars

(* ========== claims about the context-driven diff viewer =============== *)

\* C12: when a git:diff event with a path carries an inline original or an
\* inline modified content, no readFile is issued for it, and after the
\* event the original and the modified snapshot are the inline values (an
\* absent side empty), loading is false and no error is set.
C12_InlineContentShortCircuits ==
    [][ \A p \in Paths, st \in Statuses,
           orig \in Content \cup {NoValue}, modif \in Content \cup {NoValue} :
          (/\ last'.op = "CD_GitDiff"
           /\ CD_hasInline(orig, modif)
           /\ CD_GitDiff(p, st, orig, modif))
              => /\ BagCardinality(cdLoads') = BagCardinality(cdLoads)
                 /\ cd'.originalContent = CD_orEmpty(orig)
                 /\ cd'.modifiedContent = CD_orEmpty(modif)
                 /\ ~cd'.isLoading
                 /\ cd'.error = Null
      ]_vars

\* C13: in every state with a target, loading false and no error, an original
\* snapshot that holds content was obtained for that target: replacing the
\* target leaves no content of the previous target in the original snapshot.
C13_ReplacedTargetTornDown ==
    (cd.filePath # NoPath /\ ~cd.isLoading /\ cd.error = Null /\ cd.originalOf # NoPath)
        => cd.originalOf = cd.filePath

(* ================ further claims about the file editor ================ *)

C15_RetryAfterLoadError ==
    [][ \A p \in Paths :
          (/\ last'.op \in {"FE_FileOpen", "FE_PropFilePath"}
           /\ p = fe.filePath /\ fe.error # Null /\ ~fe.isLoading
           /\ (FE_FileOpen(p) \/ FE_PropFilePath(p)))
              => feReads' = BagAdd(feReads, p)
      ]_vars

\* Every snapshot and flag of the panel cleared.
FE_allCleared(s) ==
    /\ s.fileContent = EmptyContent /\ s.editorContent = EmptyContent
    /\ ~s.isDirty /\ ~s.isSaving /\ s.saveError = Null
    /\ s.error = Null /\ ~s.isLoading

\* C16: a step that makes the target null issues no provider call and cancels
\* none; and in every state without a target, whatever is still in flight or
\* has completed since, the snapshots are empty, dirty and saving are false,
\* and save error, load error and loading flag are cleared.
C16_NullTargetReset ==
    /\ [][ (fe'.filePath = NoPath /\ fe.filePath # NoPath)
              => feReads' = feReads /\ feWrites' = feWrites ]_vars
    /\ [](fe.filePath = NoPath => FE_allCleared(fe))

\* C17: when the read of the current target resolves with null or rejects,
\* the load error is a non-empty message, loading is false, and the persisted
\* and the working snapshot are both empty.
C17_LoadFailureClearsSnapshots ==
    [][ last'.op = "FE_ReadDone" =>
          \A p \in Paths, o \in ReadOutcomes :
            (p = fe.filePath /\ o.kind # "content" /\ FE_ReadDone(p, o))
                => /\ Truthy(fe'.error)
                   /\ ~fe'.isLoading
                   /\ fe'.fileContent = EmptyContent
                   /\ fe'.editorContent = EmptyContent
      ]_vars

\* The effect save() must have with override v (NoValue: none supplied) when
\* noop tells whether there is nothing to save.
FE_saveEffect(v, noop) ==
    IF fe.filePath = NoPath \/ ~feEnv.hasWriteFile \/ noop
    THEN fe' = fe /\ feWrites' = feWrites /\ feReads' = feReads
    ELSE /\ feWrites' = BagAdd(feWrites, <<fe.filePath, FE_contentToSave(fe, v)>>)
         /\ feReads' = feReads

\* C18 as stated: save() issues no write and changes no state when the target
\* is null, or the provider has no writeFile, or the panel is not dirty and
\* no override is supplied; otherwise it issues exactly one write of
\* (target, override if supplied else working snapshot).
C18_SaveNoopAsStated ==
    [][ /\ \A v \in Content \cup {NoValue} :
             (last'.op = "FE_EditorSave" /\ FE_EditorSave(v))
                 => FE_saveEffect(v, ~fe.isDirty /\ v = NoValue)
        /\ (last'.op = "FE_SaveButton" /\ FE_SaveButton)
                 => FE_saveEffect(NoValue, ~fe.isDirty)
      ]_vars

\* C18: save() issues no write and changes no state when the target is null,
\* or the provider has no writeFile, or the panel is not dirty and the content
\* to save (override if supplied else working snapshot) equals the persisted
\* snapshot; otherwise it issues exactly one write of (target, that content).
C18_SaveNoop ==
    [][ /\ \A v \in Content \cup {NoValue} :
             (last'.op = "FE_EditorSave" /\ FE_EditorSave(v))
                 => FE_saveEffect(v, ~fe.isDirty
                                     /\ FE_contentToSave(fe, v) = fe.fileContent)
        /\ (last'.op = "FE_SaveButton" /\ FE_SaveButton)
                 => FE_saveEffect(NoValue, ~fe.isDirty
                                     /\ fe.editorContent = fe.fileContent)
      ]_vars

\* C18 witness: a save with an override has just issued the only write in
\* flight, for the target and the override, which is not the working snapshot.
C18_Witness ==
    /\ last.op = "FE_EditorSave"
    /\ fe.isSaving
    /\ BagTotal(feWrites) = 1
    /\ \E c \in Content : c # fe.editorContent /\ feWrites[<<fe.filePath, c>>] = 1

(* ================= closing a context-driven panel ===================== *)

CloseEvents == {"file:close", "git:diff:close"}

\* C19: close() of the context-driven file editor, resp. diff viewer, with
\* target p emits exactly one event, file:close resp. git:diff:close, whose
\* payload path is p (the target as it was before it is cleared); after the
\* step the target is null, the snapshots are empty, and no provider call has
\* been issued; and a close event is emitted by close() only.
C19_CloseEmitsThenClears ==
    /\ [][ /\ (last'.op = "FE_Close" /\ FE_Close)
                => /\ fe.filePath # NoPath
                   /\ emitted' = <<[type |-> "file:close", path |-> fe.filePath]>>
                   /\ fe'.filePath = NoPath
                   /\ fe'.fileContent = EmptyContent
                   /\ fe'.editorContent = EmptyContent
                   /\ ~fe'.isDirty
                   /\ feReads' = feReads /\ feWrites' = feWrites
           /\ (last'.op = "CD_Close" /\ CD_Close)
                => /\ cd.filePath # NoPath
                   /\ emitted' = <<[type |-> "git:diff:close", path |-> cd.filePath]>>
                   /\ cd'.filePath = NoPath
                   /\ cd'.originalContent = EmptyContent
                   /\ cd'.modifiedContent = EmptyContent
                   /\ ~cd'.isLoading /\ cd'.error = Null
                   /\ BagCardinality(cdLoads') = BagCardinality(cdLoads)
                   /\ \A r \in BagToSet(cdLoads') : ~r.isActive
         ]_vars
    /\ [](\A i \in 1..Len(emitted) :
             emitted[i].type \in CloseEvents
                 => Len(emitted) = 1 /\ last.op \in {"FE_Close", "CD_Close"})

\* C19 witness: the diff viewer has just been closed while a read for its
\* target was in flight; the one event emitted names that target.
C19_Witness ==
    /\ last.op = "CD_Close"
    /\ cd.filePath = NoPath
    /\ BagCardinality(cdLoads) > 0
    /\ Len(emitted) = 1
    /\ emitted[1].type = "git:diff:close" /\ emitted[1].path \in Paths

(* ========================== event bridge ============================== *)

\* C20: when emit returns, the handlers it has called are exactly the
\* handlers that were subscribed to the event's type when emit was called,
\* each once, in registration order; in particular a handler subscribed
\* during the emission has not been called.
C20_EmitCallsSubscribersAtEmit ==
    (last.op = "EB_return" /\ eb.emitting = NoEmit) => eb.called = eb.atEmit

\* C21: when emit returns from an emission during which handlers were
\* unsubscribed from the event's type, every handler that was subscribed when
\* the emission began and was not unsubscribed during it has been called
\* exactly once, and these handlers were called in registration order.
C21_UnsubscribeLeavesOthers ==
    (last.op = "EB_return" /\ eb.offed # {}) =>
        LET stays(h) == h \notin eb.offed /\ EB_has(eb.atEmit, h)
        IN  SelectSeq(eb.called, stays) = SelectSeq(eb.atEmit, stays)

\* C21 witness: two handlers were subscribed when the emission began, the
\* first unsubscribed itself while it was called, and the second has been
\* called all the same.
C21_Witness ==
    /\ last.op = "EB_return"
    /\ Len(eb.atEmit) = 2
    /\ eb.offed = {eb.atEmit[1]}
    /\ eb.called = eb.atEmit

\* C22: calling the handle that on(type, h) returned, right after that call,
\* restores the subscribers of type to what they were before the on() call,
\* also when h was subscribed already, and leaves h unsubscribed from type;
\* calling off(type, h), or a handle, for a handler that is not subscribed
\* changes no subscriber set.
C22_HandleReversesSubscription ==
    [][ \A t \in EventTypes, h \in Handlers :
          (last'.op = "EB_off" /\ EB_off(t, h)) =>
              /\ (eb.handle.type = t /\ eb.handle.handler = h)
                     => /\ EB_compact(eb'.handlers[t]) = eb.handle.before
                        /\ ~EB_has(eb'.handlers[t], h)
              /\ ~EB_has(eb.handlers[t], h) => eb'.handlers = eb.handlers
      ]_vars

(* ============ further claims about the markdown editor ================ *)

\* C23: when the write of a save for the panel's file rejects, the panel
\* shows a message afterwards, and the dirty flag and the working markdown
\* are what they were before.
C23_MarkdownSaveFailureSurfaced ==
    [][ last'.op = "MD_WriteDone" =>
          \A w \in WriteKeys, o \in WriteOutcomes :
            (o # "ok" /\ w[1] = md.filePath /\ MD_WriteDone(w, o))
                => /\ md'.loadError # NoPath \/ md'.parseError
                   /\ md'.isDirty = md.isDirty
                   /\ md'.markdown = md.markdown
      ]_vars

(* ======= further claims about the prop-driven diff viewer ============= *)

\* C24: a render whose (path, status) differs from the last one's and whose
\* path is not null issues one request: getOriginal and getModified are both
\* called with exactly that path and status, both are outstanding after the
\* step, and the panel is loading; while the request of the current target
\* has neither resolved on both sides nor rejected on one, the panel is
\* loading; and when a snapshot changes on a promise of that request settling,
\* both snapshots are the pair that request resolved with, or both are empty.
C24_BothIssuedBothAwaited ==
    /\ [][ /\ last'.op = "GD_PropTarget" =>
                \A p \in Paths, st \in Statuses :
                  ((p # gd.filePath \/ st # gd.status) /\ GD_PropTarget(p, st))
                      => /\ gd'.asked = [getOriginal |-> <<p, st>>,
                                         getModified |-> <<p, st>>]
                         /\ BagCardinality(gdLoads') = BagCardinality(gdLoads) + 1
                         /\ GD_activeRuns(gdLoads')
                              = {[isActive |-> TRUE, original |-> Pending,
                                  modified |-> Pending, resumed |-> FALSE]}
                         /\ gd'.isLoading
           /\ (/\ last'.op \in {"GD_OriginalSettles", "GD_ModifiedSettles"}
               /\ GD_snapshots(gd') # GD_snapshots(gd)) =>
                \A r \in GD_activeRuns(gdLoads), o \in ReadOutcomes :
                  /\ GD_OriginalSettles(r, o)
                        => GD_snapshots(gd') \in {<<GD_orEmpty(o), GD_orEmpty(r.modified)>>,
                                                  <<EmptyContent, EmptyContent>>}
                  /\ GD_ModifiedSettles(r, o)
                        => GD_snapshots(gd') \in {<<GD_orEmpty(r.original), GD_orEmpty(o)>>,
                                                  <<EmptyContent, EmptyContent>>}
         ]_vars
    /\ [](\A r \in GD_activeRuns(gdLoads) : ~r.resumed => gd.isLoading)

\* C24 witness: the status of the target was changed while its request was
\* outstanding; the new request, with one side resolved and the other
\* outstanding, keeps the panel loading.
C24_Witness ==
    /\ last.op \in {"GD_OriginalSettles", "GD_ModifiedSettles"} /\ ~last.other
    /\ gd.isLoading
    /\ gd.asked = [getOriginal |-> <<gd.filePath, gd.status>>,
                   getModified |-> <<gd.filePath, gd.status>>]
    /\ gd.status # "unstaged"
    /\ BagCardinality(gdLoads) = 2
    /\ \E r \in GD_activeRuns(gdLoads) :
          ~r.resumed /\ (r.original = Pending) # (r.modified = Pending)

\* C25: prop-driven: in every state of a panel that is not editable (source
\* not local, or read-only forced, or no writeFile) the working snapshot is
\* the persisted one, what was loaded, the panel is not dirty and no provider
\* write is outstanding.
C25_ReadOnlyNeverDiverges ==
    (feEnv.variant = "prop" /\ ~FE_isEditable) =>
        /\ fe.editorContent = fe.fileContent
        /\ ~fe.isDirty
        /\ BagTotal(feWrites) = 0

(* ================= claims about the language mapping ================== *)

\* C26: after a render by either function: a path whose suffix after the last
\* '.' is, in any letter case, a key of the function's table has the table's
\* tag for that key (ts, TSX give typescript; Md, mdx give markdown); a null
\* path has plaintext; and the tag is the same whenever the same function
\* derives it from the same path.
C26_KnownExtensionMapped ==
    LET hasSuffix == Len(lg.path) >= 2
        suffix == lg.path[Len(lg.path)]
        table == IF lg.by = "getLanguage" THEN FE_languageMap ELSE GD_languageMap
    IN  lg.by # "none" =>
          /\ (hasSuffix /\ suffix \in {"ts", "TSX"}) => lg.language = "typescript"
          /\ (hasSuffix /\ suffix \in {"Md", "mdx"}) => lg.language = "markdown"
          /\ (hasSuffix /\ toLowerCase(suffix) \in DOMAIN table)
                => lg.language = table[toLowerCase(suffix)]
          /\ lg.path = NullPath => lg.language = "plaintext"
          /\ lg.language = (IF lg.by = "getLanguage" THEN getLanguage(lg.path)
                            ELSE languageFromPath(lg.path))

\* C26 witness: the file editor has rendered x.TSX, an upper-case suffix, and
\* the tag is typescript.
C26_Witness ==
    /\ lg.by = "getLanguage"
    /\ lg.path = <<"x", "TSX">>
    /\ lg.language = "typescript"

\* C27: after a render by either function: a path that contains no '.', and a
\* path whose suffix after the last '.' is not a key of the table in any
\* letter case, has the tag plaintext.
C27_PlaintextDefault ==
    LET hasSuffix == Len(lg.path) >= 2
        suffix == lg.path[Len(lg.path)]
        table == IF lg.by = "getLanguage" THEN FE_languageMap ELSE GD_languageMap
    IN  lg.by # "none" =>
          /\ (lg.path # NullPath /\ ~hasSuffix) => lg.language = "plaintext"
          /\ (hasSuffix /\ toLowerCase(suffix) \notin DOMAIN table)
                => lg.language = "plaintext"

(* ===================== claims about every panel ======================= *)

\* C28: in every panel a rejected provider read or write ends in a state
\* where the panel's message for it is set or the panel state is as before;
\* a switch to another target is still taken and issues a read; and when a
\* read for the current target has just succeeded, no load error is set.
C28_RejectionsHandled ==
    /\ [][ /\ (last'.op = "FE_ReadDone" /\ ~last'.ok)
                => fe' = fe \/ (fe'.error # Null /\ ~fe'.isLoading)
           /\ (last'.op = "FE_WriteDone" /\ ~last'.ok)
                => FE_loadCells(fe') = FE_loadCells(fe)
                   /\ (fe'.saveError # Null \/ fe'.saveError = fe.saveError)
           /\ (last'.op = "MD_ReadDone" /\ ~last'.ok)
                => md'.loadError # NoPath /\ ~md'.isLoading
           /\ (last'.op = "MD_WriteDone" /\ ~last'.ok) => md' = md
           /\ (last'.op \in {"GD_OriginalSettles", "GD_ModifiedSettles"} /\ ~last'.ok)
                => \A r \in BagToSet(gdLoads), o \in ReadOutcomes :
                     (/\ GD_rejected(o)
                      /\ (GD_OriginalSettles(r, o) \/ GD_ModifiedSettles(r, o)))
                         => gd' = gd \/ (gd'.error # Null /\ ~gd'.isLoading)
           /\ (last'.op = "CD_ReadDone" /\ ~last'.ok)
                => \A r \in BagToSet(cdLoads), o \in ReadOutcomes :
                     (o.kind \in RejectKinds /\ CD_ReadDone(r, o))
                         => cd' = cd \/ (cd'.error # Null /\ ~cd'.isLoading)
           /\ \A p \in Paths :
                /\ (p # fe.filePath /\ (FE_PropFilePath(p) \/ FE_FileOpen(p)))
                      => feReads' = BagAdd(feReads, p)
                /\ (p # md.filePath /\ mdEnv.hasReadFile /\ MD_FileOpen(p))
                      => mdReads' = BagAdd(mdReads, p)
           /\ (last'.op \in {"GD_OriginalSettles", "GD_ModifiedSettles"}
                 /\ last'.ok /\ gd.isLoading /\ ~gd'.isLoading)
                => gd'.error = Null
         ]_vars
    /\ [](/\ (last.op = "FE_ReadDone" /\ last.ok /\ ~last.other) => fe.error = Null
          /\ (last.op = "MD_ReadDone" /\ last.ok /\ ~last.other) => md.loadError = NoPath
          /\ (last.op = "CD_ReadDone" /\ last.ok /\ ~last.other) => cd.error = Null)

(* ============ concurrency claims about the file editor ================ *)

\* C29: when a read of the current target resolves with content it is
\* applied, whether or not another read of the same target is outstanding:
\* the persisted snapshot becomes its content; so of two reads of the target
\* the one that completes last determines the persisted snapshot.
C29_SameTargetReadsAllApplied ==
    [][ last'.op = "FE_ReadDone" =>
          \A p \in Paths, o \in ReadOutcomes :
            (/\ p = fe.filePath /\ o.kind = "content"
             /\ feReads[p] \in {1, 2}
             /\ FE_ReadDone(p, o))
                => fe'.fileContent = o.value
      ]_vars

\* C29 witness: of two reads of the target that were outstanding at once, the
\* first to complete has just been applied while the other is outstanding.
C29_Witness ==
    /\ last.op = "FE_ReadDone" /\ last.ok /\ ~last.other
    /\ feReads[fe.filePath] = 1
    /\ fe.fileContent # EmptyContent

\* C30: when the write of a save for the current target succeeds right after
\* an edit that was made while it was in flight, the working snapshot is still
\* that edit, and the panel is dirty exactly if the edit differs from the
\* content that was written.
C30_EditDuringSaveKept ==
    [][ (last.op = "FE_handleEditorChange" /\ last'.op = "FE_WriteDone") =>
          \A w \in WriteKeys :
            (w[1] = fe.filePath /\ FE_WriteDone(w, "ok"))
                => /\ fe'.editorContent = fe.editorContent
                   /\ fe'.isDirty = (fe.editorContent # w[2])
      ]_vars

\* C39: after a render of any path by either function, the tag derived is the
\* tag the file editor's getLanguage gives for that path and also the tag the
\* diff viewers' languageFromPath gives for it.
C39_OneLanguageMapping ==
    lg.by # "none" =>
        /\ lg.language = getLanguage(lg.path)
        /\ lg.language = languageFromPath(lg.path)

(* ============== further claims about the file editor ================== *)

C34_SavingUntilLastWrite ==
    [][ LET pending(w, s) == /\ s.filePath # NoPath
                             /\ \E c \in Content : w[<<s.filePath, c>>] > 0
        IN  /\ (/\ feEnv.variant = "prop"
                /\ last'.op = "FE_WriteDone"
                /\ pending(feWrites', fe'))
                   => fe'.isSaving /\ fe'.isSavingRef
            /\ (/\ feEnv.variant = "prop"
                /\ last'.op = "FE_WatchFire"
                /\ pending(feWrites, fe))
                   => feReads' = feReads
      ]_vars

C37_OnlyMarkdownTargets ==
    /\ [](md.filePath = NoPath \/ MD_isMarkdown(md.filePath))
    /\ [][ (last'.op = "MD_FileOpen" /\ MD_FileOpen(NonMarkdownPath))
              => /\ md'.filePath = md.filePath
                 /\ md'.markdown = md.markdown
                 /\ md'.isDirty = md.isDirty
                 /\ md' = md
                 /\ mdReads' = mdReads
          ]_vars

\* A file is loaded and edited, and the last step was a file:open the panel
\* did not take.
C37_Witness ==
    /\ last.op = "MD_FileOpen" /\ last.other
    /\ md.filePath # NoPath /\ ~md.isLoading
    /\ md.isDirty /\ md.markdown # EmptyContent
    /\ BagTotal(mdReads) = 0

(* ============================ liveness ================================ *)

\* The file editor with provider reads that settle: a readFile promise in
\* flight is eventually resolved or rejected, and loadFile then resumes.
SpecFELive ==
    /\ InitFE
    /\ [][FE_Next]_vars
    /\ \A p \in Paths : WF_vars(\E o \in ReadOutcomes : FE_ReadDone(p, o))

\* C36: if the target of the file editor eventually stops changing and every
\* read settles, the loading flag is false again and again: the panel never
\* stays in Loading for ever, also when the last target is null.
C36_NeverLoadingForever ==
    (<>[][fe'.filePath = fe.filePath]_vars) => []<>(~fe.isLoading)

(* ============= claims about the prop-driven markdown editor =========== *)

\* C31: in the prop-driven markdown editor, a change of the file path from a
\* loaded file a to b while the panel is dirty and the provider has writeFile
\* issues the write of (a, working markdown) and no read; b's read is issued
\* when that write has settled, resolved or rejected; b's content then
\* replaces the edits and clears the dirty flag; when the panel is not dirty
\* the change issues b's read and no write.
C31_AutoSaveBeforeRead ==
    [][ LET a == pm.currentFilePath
            b == pm'.filePath
            switch == /\ last'.op = "PM_PropFilePath"
                      /\ a # NoPath /\ pm.filePath = a
                      /\ b # NoPath /\ b # a
        IN  /\ (switch /\ pm.isDirty /\ pmEnv.hasWriteFile)
                  => /\ pmCalls' = << [call |-> "writeFile", path |-> a,
                                       content |-> pm.markdown] >>
                     /\ pmRuns' = BagAdd(pmRuns, <<b, "save">>)
                     /\ pm' = [pm EXCEPT !.filePath = b, !.touched = FALSE]
            /\ (switch /\ ~pm.isDirty)
                  => /\ pmCalls' = << [call |-> "readFile", path |-> b,
                                       content |-> EmptyContent] >>
                     /\ pmRuns' = BagAdd(pmRuns, <<b, "read">>)
            /\ last'.op = "PM_AutoSaveDone"
                  => \A p \in Paths, o \in WriteOutcomes :
                       PM_AutoSaveDone(p, o)
                          => /\ pmCalls' = << [call |-> "readFile", path |-> p,
                                               content |-> EmptyContent] >>
                             /\ pmRuns'[<<p, "read">>] = pmRuns[<<p, "read">>] + 1
            /\ (last'.op = "PM_ReadDone" /\ last'.ok)
                  => \A p \in Paths :
                       (p = pm.filePath /\ PM_ReadDone(p, "content"))
                          => /\ pm'.currentFilePath = p
                             /\ pm'.markdown = pmEnv.files[p]
                             /\ ~pm'.isDirty
      ]_vars

\* The auto-save write of a switch from a dirty file was rejected and the
\* read of the new file has just been issued.
C31_Witness ==
    /\ last.op = "PM_AutoSaveDone" /\ ~last.ok
    /\ pm.filePath # NoPath
    /\ pm.currentFilePath \notin {NoPath, pm.filePath}
    /\ pm.isDirty /\ pm.isLoading
    /\ pmCalls = << [call |-> "readFile", path |-> pm.filePath, content |-> EmptyContent] >>

\* C32: while the prop-driven markdown editor stays mounted, a provider write
\* is issued only by an explicit save or by a change of the file path while
\* the panel is dirty: an edit, or a change of the dirty flag, issues none.
C32_WritesOnlyOnSaveOrSwitch ==
    [][ (\E i \in 1..Len(pmCalls') : pmCalls'[i].call = "writeFile")
            => \/ last'.op = "PM_handleSave"
               \/ /\ last'.op = "PM_PropFilePath"
                  /\ pm'.filePath # pm.filePath
                  /\ pm.isDirty
      ]_vars

\* The prop-driven markdown editor with provider calls that settle: while an
\* auto-save write, a read or a handleSave write is pending, one of the
\* pending promises is eventually settled.
SpecPMLive ==
    /\ InitPM
    /\ [][PM_Next]_vars
    /\ WF_vars(\/ \E o \in WriteOutcomes : PM_SaveDone(o)
               \/ \E p \in Paths, o \in WriteOutcomes : PM_AutoSaveDone(p, o)
               \/ \E p \in Paths, o \in {"content", "null", "errMsg"} : PM_ReadDone(p, o))

\* C35: if every read of the prop-driven markdown editor succeeds, the file
\* path eventually stops changing and the user does not act on the editor
\* after its last change, the panel eventually stays settled on its filePath b: currentFilePath = b, markdown = b's content and
\* loading false.
C35_SettlesOnTarget ==
    (/\ [](last.op = "PM_ReadDone" => last.ok)
     /\ <>[][pm'.filePath = pm.filePath]_vars
     /\ <>[](~pm.touched))
        => <>[](pm.filePath # NoPath
                   => /\ pm.currentFilePath = pm.filePath
                      /\ pm.markdown = pmEnv.files[pm.filePath]
                      /\ ~pm.isLoading)

\* After a change of the file path a -> b the result of a's read has arrived:
\* the panel shows a, and a read of b is pending.
C35_Witness ==
    /\ last.op = "PM_ReadDone" /\ last.ok /\ last.other
    /\ ~pm.touched
    /\ pm.filePath # NoPath
    /\ pm.currentFilePath \notin {NoPath, pm.filePath}
    /\ pmRuns[<<pm.filePath, "read">>] > 0
====
